---------------------------- MODULE Spec2Model ----------------------------
(***************************************************************************)
(* Model of meshMonitor's telemetry persistence engine                     *)
(* (src/src/meshviewer/data_persistence.py, class DataPersistence), of     *)
(* the lastHeard cache of MeshInterface (src/src/meshviewer/interface.py)  *)
(* and of the handlers that drive them: connect, disconnect and refresh    *)
(* of the dashboard (src/src/gui/main.py) and the monitoring loop of the   *)
(* command line (src/src/meshviewer/cli.py).                               *)
(*                                                                         *)
(* Representation choices                                                  *)
(*  - Time is counted in whole seconds.  save_nodes_data stamps a batch    *)
(*    with int(time.time()); the CSV keeps that instant as ISO text and    *)
(*    pandas parses it back.  A well-formed timestamp cell is modelled by  *)
(*    the second it denotes, an unparsable cell by BadTimestamp, on which  *)
(*    to_datetime raises.                                                  *)
(*  - uptime_hours = uptimeSeconds / 3600 is kept as its numerator (the    *)
(*    number of 1/3600 hours), so "diff < 0.01" reads                      *)
(*    diff * EpsilonDen < SecondsPerHour in exact arithmetic.              *)
(*  - A window argument `days` is kept in thousandths of a day, so the     *)
(*    GUI choice 0.042 is 42 and 0.5 is 500; one thousandth of a day is    *)
(*    86.4 s, hence the comparisons in tenths of a second.                 *)
(*  - An optional dictionary entry is a sequence of length 0 or 1.         *)
(*  - A CSV row keeps the columns the engine computes with: timestamp,     *)
(*    node_id and uptime_hours.                                            *)
(*  - interface.nodes, which the radio library and its packet hooks       *)
(*    update, is an input of each poll.                                    *)
(***************************************************************************)
EXTENDS Integers, Sequences, FiniteSets, TLC

VARIABLES
    now,               \* the wall clock, in seconds
    csv,               \* rows of node_data.csv, in file order
    json,              \* records of node_data.json, in file order
    previous_uptimes,  \* self._previous_uptimes: node_id -> uptime_hours
    last,              \* the last call made and what it returned
    scenario,          \* observer: polls of the reference scenario matched so far
    connection_manager,\* MeshConnectionManager: interface, connection_type, connection_params
    mesh_interface,    \* MeshViewerGUI.mesh_interface: None or a MeshInterface
    connected,         \* MeshViewerGUI.connected
    auto_refresh_timer,\* MeshViewerGUI.auto_refresh_timer: None or the 300 s timer
    active_timers,     \* the 300 s timers created and not deactivated
    event,             \* observer: the last GUI handler run, and whether it went through
    pending,           \* the event loop: triggers raised and not yet handled
    cycles,            \* the event loop: refresh_nodes calls inside save_nodes_data
    shutdown           \* MeshViewerApp (src/main.py): where run is, and the cleanup calls in progress

\* the event loop of the GUI process
loop == <<pending, cycles>>

\* the fields of the GUI and of its connection manager, its event loop, and
\* the application that runs it
gui == <<connection_manager, mesh_interface, connected, auto_refresh_timer,
         active_timers, event, loop, shutdown>>

vars == <<now, csv, json, previous_uptimes, last, scenario, gui>>

---------------------------------------------------------------------------
(* Bounds of the model *)

\* save is not called once the record stream holds this many records
MaxRecords == 3
\* a table left by an earlier run holds at most this many rows
MaxSeedRows == 2
\* batches that a process restarted on such a table gets past the throttle
MaxRestartRecords == 1

\* under the clock that steps backwards, save is not called once the record
\* stream holds this many records
MaxLogRecords == 2
\* the dashboard's handlers do not reach save once the record stream holds
\* this many records
MaxGuiRecords == 2
\* the event loop's handlers do not enter save once the record stream and
\* the calls in progress reach this many
MaxLoopRecords == 2
\* calls of save_nodes_data the model lets be in progress at once
MaxTasks == 2
\* periods of the 300 s timer the polling dashboard is followed for
MaxPeriods == 2
\* SIGINT and SIGTERM signals delivered to one run of the application
MaxSignals == 2

---------------------------------------------------------------------------
(* Program constants *)

ThrottleSeconds == 240
SecondsPerHour == 3600
EpsilonDen == 100
SecondsPerDay == 86400
\* thousandths of a day in a day, and tenths of a second in one of them
MilliPerDay == 1000
TenthsPerMilliDay == 864

\* an unparsable timestamp cell
BadTimestamp == -1

---------------------------------------------------------------------------
(* Inputs *)

NodeIds == {"A", "B"}
\* iteration order of the nodes_data dictionary
NodeOrder == <<"A", "B">>

\* uptimeSeconds a node may report: under, at and over 0.01 h, 1.0 h, 1.05 h
UptimeSeconds == {18, 36, 3600, 3780}

Metrics ==
    {[uptimeSeconds |-> <<>>]} \cup {[uptimeSeconds |-> <<u>>] : u \in UptimeSeconds}

NodeRecords ==
    {[deviceMetrics |-> <<>>]} \cup {[deviceMetrics |-> <<m>>] : m \in Metrics}

\* what the second node reports when the snapshot holds it
OtherRecords ==
    {[deviceMetrics |-> <<>>], [deviceMetrics |-> <<[uptimeSeconds |-> <<3600>>]>>]}

\* the snapshots handed to save_nodes_data: node A alone, or A and B
Snapshots ==
    {[id \in {"A"} |-> a] : a \in NodeRecords}
    \cup {[id \in NodeIds |-> IF id = "A" THEN a ELSE b] :
              a \in NodeRecords, b \in OtherRecords}

\* the instant at which the process starts
StartTime == 3 * SecondsPerDay

\* the instants at which calls are made, in seconds after the start
Instants == {0, 60, 300, 600}

\* window arguments (thousandths of a day): 0.042 and 0.5 of the GUI selector
DaysArgs == {42, 500}
\* days_to_keep arguments of cleanup_old_data, in whole days
DaysToKeepArgs == {1, 2}

---------------------------------------------------------------------------
(* Helpers: dictionaries, sequences *)

AbsDiff(a, b) == IF a >= b THEN a - b ELSE b - a

\* dict.get(key, default)
Get(d, key, default) == IF key \in DOMAIN d THEN d[key] ELSE default

\* an optional entry's value, or the default when it is absent
GetOpt(opt, default) == IF Len(opt) = 0 THEN default ELSE opt[1]

Row(ts, id, up) == [timestamp |-> ts, node_id |-> id, uptime_hours |-> up]

---------------------------------------------------------------------------
(* pandas: reading the table *)

\* pd.to_datetime(df['timestamp']) raises when a cell cannot be parsed
ToDatetimeRaises(rows) == \E i \in 1..Len(rows) : rows[i].timestamp = BadTimestamp

\* df['timestamp'].max()
MaxTimestamp(rows) ==
    CHOOSE t \in {rows[i].timestamp : i \in 1..Len(rows)} :
        \A i \in 1..Len(rows) : rows[i].timestamp <= t

RECURSIVE InsertByTimestamp(_, _)
\* insert a row after the rows whose timestamp is not later than its own
InsertByTimestamp(sorted, r) ==
    IF sorted = <<>> THEN <<r>>
    ELSE IF Head(sorted).timestamp <= r.timestamp
         THEN <<Head(sorted)>> \o InsertByTimestamp(Tail(sorted), r)
         ELSE <<r>> \o sorted

\* the frame left in the order of the file
FileOrder(rows) == rows

RECURSIVE SortValues(_)
\* df.sort_values('timestamp'): ascending; rows with equal timestamps keep
\* their file order (numpy sorts arrays this small by insertion)
SortValues(rows) ==
    IF rows = <<>> THEN <<>>
    ELSE InsertByTimestamp(SortValues(SubSeq(rows, 1, Len(rows) - 1)), rows[Len(rows)])

---------------------------------------------------------------------------
(* DataPersistence.__init__ and _load_previous_uptimes *)

\* index of the last row of a node in file order
LastRowOf(rows, id) ==
    CHOOSE i \in 1..Len(rows) :
        /\ rows[i].node_id = id
        /\ \A j \in 1..Len(rows) : rows[j].node_id = id => j <= i

\* the baselines taken from each node's first row instead of its last
LoadFirstUptimes(rows) ==
    [id \in {rows[i].node_id : i \in 1..Len(rows)} |->
        rows[CHOOSE i \in 1..Len(rows) :
                /\ rows[i].node_id = id
                /\ \A j \in 1..Len(rows) : rows[j].node_id = id => j >= i].uptime_hours]

\* df.groupby('node_id')['uptime_hours'].last().to_dict()
LoadPreviousUptimes(rows) ==
    [id \in {rows[i].node_id : i \in 1..Len(rows)} |->
        rows[LastRowOf(rows, id)].uptime_hours]

---------------------------------------------------------------------------
(* DataPersistence.save_nodes_data *)

HasMetrics(nodes_data, id) ==
    id \in DOMAIN nodes_data /\ Len(nodes_data[id].deviceMetrics) = 1

\* node['deviceMetrics'].get('uptimeSeconds', 0) / 3600, in 1/3600 hours
UptimeHours(node) == GetOpt(node.deviceMetrics[1].uptimeSeconds, 0)

\* the throttle applied only to a clock that did not step back
ThrottledForwardOnly(rows, timestamp) ==
    /\ rows # <<>>
    /\ ~ToDatetimeRaises(rows)
    /\ timestamp - MaxTimestamp(rows) >= 0
    /\ timestamp - MaxTimestamp(rows) < ThrottleSeconds

\* a check that rejects only a call stamped like the latest row
ThrottledSameSecond(rows, timestamp) ==
    /\ rows # <<>>
    /\ ~ToDatetimeRaises(rows)
    /\ timestamp = MaxTimestamp(rows)

\* a save that is never throttled
ThrottledNever(rows, timestamp) == FALSE

\* a throttle that rejects every call once the table holds a row
ThrottledOnceWritten(rows, timestamp) == rows # <<>>

\* the global throttle: the call returns before it prepares any row
Throttled(rows, timestamp) ==
    /\ rows # <<>>
    /\ ~ToDatetimeRaises(rows)
    /\ timestamp - MaxTimestamp(rows) < ThrottleSeconds

\* the gate with a threshold of 0.1 hours
UptimeUnchangedCoarse(uptime_hours, previous_uptime) ==
    AbsDiff(uptime_hours, previous_uptime) * 10 < SecondsPerHour

\* the gate without abs(): an uptime that went down counts as unchanged
UptimeUnchangedSigned(uptime_hours, previous_uptime) ==
    (uptime_hours - previous_uptime) * EpsilonDen < SecondsPerHour

\* the per-node gate: uptime_diff < 0.01 skips the node
UptimeUnchanged(uptime_hours, previous_uptime) ==
    AbsDiff(uptime_hours, previous_uptime) * EpsilonDen < SecondsPerHour

\* the gate applied only to nodes that are already tracked
AcceptedTrackedOnly(nodes_data, previous) ==
    {id \in DOMAIN previous :
        /\ HasMetrics(nodes_data, id)
        /\ ~UptimeUnchanged(UptimeHours(nodes_data[id]), previous[id])}

\* the nodes of the snapshot that get a row
Accepted(nodes_data, previous) ==
    {id \in NodeIds :
        /\ HasMetrics(nodes_data, id)
        /\ ~UptimeUnchanged(UptimeHours(nodes_data[id]), Get(previous, id, 0))}

RECURSIVE CsvRows(_, _, _, _)
\* csv_rows, built in the dictionary's iteration order from position k on
CsvRows(nodes_data, accepted, timestamp, k) ==
    IF k > Len(NodeOrder) THEN <<>>
    ELSE IF NodeOrder[k] \in accepted
         THEN <<Row(timestamp, NodeOrder[k], UptimeHours(nodes_data[NodeOrder[k]]))>>
              \o CsvRows(nodes_data, accepted, timestamp, k + 1)
         ELSE CsvRows(nodes_data, accepted, timestamp, k + 1)

\* json_data: one record per call that gets past the throttle
JsonRecord(nodes_data, accepted, timestamp) ==
    [timestamp |-> timestamp,
     nodes |-> [id \in accepted |-> UptimeHours(nodes_data[id])]]

\* tracking updated for the written nodes only
UpdatedUptimesOfWritten(nodes_data, previous) ==
    [id \in DOMAIN previous \cup Accepted(nodes_data, previous) |->
        IF id \in Accepted(nodes_data, previous) THEN UptimeHours(nodes_data[id])
        ELSE previous[id]]

\* tracking updated for every node of the snapshot, 0 without a metrics block
UpdatedUptimesOfAll(nodes_data, previous) ==
    [id \in DOMAIN previous \cup DOMAIN nodes_data |->
        IF HasMetrics(nodes_data, id) THEN UptimeHours(nodes_data[id])
        ELSE IF id \in DOMAIN nodes_data THEN 0
        ELSE previous[id]]

\* the loop that closes the call: every node with a metrics block is tracked
UpdatedUptimes(nodes_data, previous) ==
    [id \in DOMAIN previous \cup {n \in NodeIds : HasMetrics(nodes_data, n)} |->
        IF HasMetrics(nodes_data, id) THEN UptimeHours(nodes_data[id])
        ELSE previous[id]]

\* the value a call returns to its caller: the frame from the two history
\* queries, the optional record or the dictionary from get_latest_data and
\* get_data_summary, None from the others (save_nodes_data returns None at
\* the throttle and at its end)
Returned(op, rows) ==
    IF op \in {"history", "node_history"} THEN <<rows>>
    ELSE IF op \in {"latest", "summary"} THEN rows
    ELSE <<>>

\* what a call leaves in `last`
Call(op, arg, id, nodes_data, throttled, written, rows) ==
    [op |-> op, arg |-> arg, node_id |-> id, nodes_data |-> nodes_data,
     throttled |-> throttled, written |-> written, rows |-> rows,
     returned |-> Returned(op, rows), failed |-> <<>>, raised |-> FALSE]

\* the same call when its write to `at` fails: the exception is not caught,
\* the call is left by it instead of a return
WriteFailed(call, at) ==
    [call EXCEPT !.failed = <<at>>, !.raised = TRUE, !.returned = <<>>]

\* the reference scenario: node A alone, polled at 0, 60, 300 and 600 seconds
\* with uptimes 1.0, 1.0, 1.0 and 1.05 hours, on a fresh data directory
ScenarioPolls ==
    <<[at |-> 0, uptimeSeconds |-> 3600], [at |-> 60, uptimeSeconds |-> 3600],
      [at |-> 300, uptimeSeconds |-> 3600], [at |-> 600, uptimeSeconds |-> 3780]>>

\* the observer's value once the calls made are not the scenario's
ScenarioOff == Len(ScenarioPolls) + 1

\* the observer after a poll: one more poll matched, or the scenario is left
Observed(nodes_data) ==
    IF /\ scenario < Len(ScenarioPolls)
       /\ now = StartTime + ScenarioPolls[scenario + 1].at
       /\ nodes_data =
            [id \in {"A"} |-> [deviceMetrics |->
                <<[uptimeSeconds |-> <<ScenarioPolls[scenario + 1].uptimeSeconds>>]>>]]
    THEN scenario + 1
    ELSE ScenarioOff

\* a save that takes the reported uptimes as baselines before it returns at
\* the throttle
SaveNodesDataTrackingThrottled(nodes_data) ==
    /\ Len(json) < MaxRecords
    /\ scenario' = Observed(nodes_data)
    /\ LET timestamp == now
           accepted == Accepted(nodes_data, previous_uptimes)
       IN IF Throttled(csv, timestamp)
          THEN /\ last' = Call("save", timestamp, "", nodes_data, TRUE, {}, <<>>)
               /\ previous_uptimes' = UpdatedUptimes(nodes_data, previous_uptimes)
               /\ UNCHANGED <<now, csv, json>>
          ELSE /\ csv' = csv \o CsvRows(nodes_data, accepted, timestamp, 1)
               /\ json' = Append(json, JsonRecord(nodes_data, accepted, timestamp))
               /\ previous_uptimes' = UpdatedUptimes(nodes_data, previous_uptimes)
               /\ last' = Call("save", timestamp, "", nodes_data, FALSE, accepted,
                               CsvRows(nodes_data, accepted, timestamp, 1))
               /\ UNCHANGED now

SaveNodesData(nodes_data) ==
    /\ Len(json) < MaxRecords
    /\ scenario' = Observed(nodes_data)
    /\ LET timestamp == now
           accepted == Accepted(nodes_data, previous_uptimes)
       IN IF Throttled(csv, timestamp)
          THEN /\ last' = Call("save", timestamp, "", nodes_data, TRUE, {}, <<>>)
               /\ UNCHANGED <<now, csv, json, previous_uptimes>>
          ELSE /\ csv' = csv \o CsvRows(nodes_data, accepted, timestamp, 1)
               /\ json' = Append(json, JsonRecord(nodes_data, accepted, timestamp))
               /\ previous_uptimes' = UpdatedUptimes(nodes_data, previous_uptimes)
               /\ last' = Call("save", timestamp, "", nodes_data, FALSE, accepted,
                               CsvRows(nodes_data, accepted, timestamp, 1))
               /\ UNCHANGED now

\* a call in which a write fails: opening or writing the table (lines
\* 168-171) after k rows reached it, or the record stream (lines 174-175)
\* after the whole batch reached the table; neither is inside a try
SaveNodesDataFails(nodes_data, at, k) ==
    /\ ~Throttled(csv, now)
    /\ LET accepted == Accepted(nodes_data, previous_uptimes)
           csv_rows == CsvRows(nodes_data, accepted, now, 1)
       IN /\ k \in 0..Len(csv_rows)
          /\ at = "csv" => k = 0 \/ k < Len(csv_rows)
          /\ at = "json" => k = Len(csv_rows)
          /\ csv' = csv \o SubSeq(csv_rows, 1, k)
          /\ last' = WriteFailed(Call("save", now, "", nodes_data, FALSE, accepted,
                                      SubSeq(csv_rows, 1, k)), at)
    /\ scenario' = ScenarioOff
    /\ UNCHANGED <<now, json, previous_uptimes, gui>>

---------------------------------------------------------------------------
(* DataPersistence.get_battery_history, get_node_battery_history *)

\* the cutoff with the argument taken as weeks
NotBeforeCutoffWeeks(timestamp, days) ==
    10 * timestamp >= 10 * now - 7 * TenthsPerMilliDay * days

\* the cutoff with the argument taken as hours (3.6 s per thousandth)
NotBeforeCutoffHours(timestamp, days) ==
    10 * timestamp >= 10 * now - 36 * days

\* timestamp >= datetime.now() - timedelta(days=days), days in thousandths,
\* both sides in tenths of a second
NotBeforeCutoff(timestamp, days) ==
    10 * timestamp >= 10 * now - TenthsPerMilliDay * days

\* the DataFrame the call returns
BatteryHistory(rows, days) ==
    IF rows = <<>> THEN <<>>
    ELSE IF ToDatetimeRaises(rows) THEN <<>>
    ELSE LET InWindow(r) == NotBeforeCutoff(r.timestamp, days)
         IN SortValues(SelectSeq(rows, InWindow))

NodeBatteryHistory(rows, id, days) ==
    LET df == BatteryHistory(rows, days)
        OfNode(r) == r.node_id = id
    IN IF df = <<>> THEN df ELSE SelectSeq(df, OfNode)

GetBatteryHistory(days) ==
    /\ last' = Call("history", days, "", <<>>, FALSE, {}, BatteryHistory(csv, days))
    /\ UNCHANGED <<now, csv, json, previous_uptimes, scenario, gui>>

GetNodeBatteryHistory(id, days) ==
    /\ last' = Call("node_history", days, id, <<>>, FALSE, {},
                    NodeBatteryHistory(csv, id, days))
    /\ UNCHANGED <<now, csv, json, previous_uptimes, scenario, gui>>

---------------------------------------------------------------------------
(* DataPersistence.cleanup_old_data *)

\* the table after the call
CleanedUp(rows, days_to_keep) ==
    LET df == BatteryHistory(rows, days_to_keep * 2 * MilliPerDay)
        Keep(r) == NotBeforeCutoff(r.timestamp, days_to_keep * MilliPerDay)
    IN IF df = <<>> THEN rows ELSE SelectSeq(df, Keep)

\* a trim that also drops the batch records stamped before the cutoff
CleanupOldDataBothForms(days_to_keep) ==
    /\ csv' = CleanedUp(csv, days_to_keep)
    /\ json' =
          LET Keep(record) == NotBeforeCutoff(record.timestamp, days_to_keep * MilliPerDay)
          IN SelectSeq(json, Keep)
    /\ last' = Call("cleanup", days_to_keep, "", <<>>, FALSE, {}, <<>>)
    /\ scenario' = ScenarioOff
    /\ UNCHANGED <<now, previous_uptimes, gui>>

CleanupOldData(days_to_keep) ==
    /\ csv' = CleanedUp(csv, days_to_keep)
    /\ last' = Call("cleanup", days_to_keep, "", <<>>, FALSE, {}, <<>>)
    /\ scenario' = ScenarioOff
    /\ UNCHANGED <<now, json, previous_uptimes, gui>>

---------------------------------------------------------------------------
(* DataPersistence.get_data_summary, get_latest_data *)

\* df['timestamp'].min()
MinTimestamp(rows) ==
    CHOOSE t \in {rows[i].timestamp : i \in 1..Len(rows)} :
        \A i \in 1..Len(rows) : rows[i].timestamp >= t

\* the window of the summary: get_battery_history(30), in thousandths of a day
SummaryDays == 30 * MilliPerDay

\* the dictionary returned for an empty frame and after an exception
EmptySummary ==
    [total_records |-> 0, unique_nodes |-> 0, date_range |-> <<>>,
     latest_timestamp |-> <<>>]

\* the statistics of a frame
SummaryOf(df) ==
    [total_records |-> Len(df),
     unique_nodes |-> Cardinality({df[i].node_id : i \in 1..Len(df)}),
     date_range |-> <<[start |-> MinTimestamp(df), end |-> MaxTimestamp(df)]>>,
     latest_timestamp |-> <<MaxTimestamp(df)>>]

\* the summary without the test for an empty frame: min() and max() of an
\* empty column are NaT
DataSummaryUnguarded(rows) ==
    LET df == BatteryHistory(rows, SummaryDays)
    IN IF df = <<>>
       THEN [total_records |-> 0, unique_nodes |-> 0,
             date_range |-> <<[start |-> BadTimestamp, end |-> BadTimestamp]>>,
             latest_timestamp |-> <<BadTimestamp>>]
       ELSE SummaryOf(df)

\* the dictionary the call returns
DataSummary(rows) ==
    LET df == BatteryHistory(rows, SummaryDays)
    IN IF df = <<>> THEN EmptySummary ELSE SummaryOf(df)

\* a summary that writes the frame it read back to the table
GetDataSummaryRewriting ==
    /\ last' = Call("summary", 0, "", <<>>, FALSE, {}, <<DataSummary(csv)>>)
    /\ csv' = BatteryHistory(csv, SummaryDays)
    /\ UNCHANGED <<now, json, previous_uptimes, scenario, gui>>

GetDataSummary ==
    /\ last' = Call("summary", 0, "", <<>>, FALSE, {}, <<DataSummary(csv)>>)
    /\ UNCHANGED <<now, csv, json, previous_uptimes, scenario, gui>>

\* the first line of the stream instead of the last
LatestDataFirst(records) ==
    IF records = <<>> THEN <<>> ELSE <<records[1]>>

\* json.loads(lines[-1]) of the lines json.dumps wrote: the record holds
\* integers, strings and a dictionary keyed by strings, which the two
\* conversions give back as they were; None without a line
LatestData(records) ==
    IF records = <<>> THEN <<>> ELSE <<records[Len(records)]>>

GetLatestData ==
    /\ last' = Call("latest", 0, "", <<>>, FALSE, {}, LatestData(json))
    /\ UNCHANGED <<now, csv, json, previous_uptimes, scenario, gui>>

---------------------------------------------------------------------------
(* The clock *)

Tick(t) ==
    /\ StartTime + t > now
    /\ now' = StartTime + t
    /\ UNCHANGED <<csv, json, previous_uptimes, last, scenario, gui>>

\* time.time() read by the next call: the wall clock can be set to any
\* instant, earlier ones included
SetClock(t) ==
    /\ StartTime + t # now
    /\ now' = StartTime + t
    /\ UNCHANGED <<csv, json, previous_uptimes, last, scenario, gui>>

---------------------------------------------------------------------------
(* MeshInterface: the lastHeard cache *)

\* lastHeard values the radio reports, epoch seconds
LastHeards == {100, 200}

\* a node of interface.nodes: deviceMetrics and lastHeard are optional keys
RadioNodes ==
    {[deviceMetrics |-> d, lastHeard |-> h] :
        d \in {<<>>, <<[uptimeSeconds |-> <<3600>>]>>},
        h \in {<<>>} \cup {<<t>> : t \in LastHeards}}

\* interface.nodes as a poll finds it: node A alone, or A and B with B heard
\* at 100
RadioViews ==
    {[id \in {"A"} |-> a] : a \in RadioNodes}
    \cup {[id \in NodeIds |->
              IF id = "A" THEN a
              ELSE [deviceMetrics |-> <<[uptimeSeconds |-> <<3600>>]>>,
                    lastHeard |-> <<100>>]] : a \in RadioNodes}

\* MeshInterface.__init__
NewMeshInterface == [last_heard_cache |-> << >>]

\* the nodes the loop looks at: 'lastHeard' in node
HeardNodes(nodes) == {id \in DOMAIN nodes : Len(nodes[id].lastHeard) = 1}

\* the test of line 318 on one node
LastHeardChanged(nodes, cache, id) ==
    id \notin DOMAIN cache \/ cache[id] # nodes[id].lastHeard[1]

\* a change reported only when lastHeard went up
ClassifiedIncreasing(nodes, cache) ==
    [id \in HeardNodes(nodes) |->
        IF id \notin DOMAIN cache THEN "FirstSeen"
        ELSE IF nodes[id].lastHeard[1] > cache[id] THEN "Advanced"
        ELSE "Unchanged"]

\* what the call makes of each node it looks at: cached silently when the
\* cache has no entry, reported as updated (line 324) when the entry differs,
\* passed over otherwise
Classified(nodes, cache) ==
    [id \in HeardNodes(nodes) |->
        IF ~LastHeardChanged(nodes, cache, id) THEN "Unchanged"
        ELSE IF id \in DOMAIN cache THEN "Advanced"
        ELSE "FirstSeen"]

\* self.last_heard_cache after the call
DetectedCache(nodes, cache) ==
    [id \in DOMAIN cache \cup HeardNodes(nodes) |->
        IF id \in HeardNodes(nodes) /\ LastHeardChanged(nodes, cache, id)
        THEN nodes[id].lastHeard[1]
        ELSE cache[id]]

\* one round of the monitoring loop of the command line: refresh_nodes_data,
\* detect_last_heard_changes, force_last_heard_update; `nodes` is
\* interface.nodes as detect_last_heard_changes finds it
DetectLastHeardChanges(nodes) ==
    /\ mesh_interface # <<>>
    /\ mesh_interface' =
          <<[last_heard_cache |->
                DetectedCache(nodes, mesh_interface[1].last_heard_cache)]>>
    /\ last' = Call("detect", 0, "", nodes, FALSE, {},
                    <<Classified(nodes, mesh_interface[1].last_heard_cache)>>)
    /\ UNCHANGED <<now, csv, json, previous_uptimes, scenario,
                   connection_manager, connected, auto_refresh_timer, active_timers, event, loop, shutdown>>

---------------------------------------------------------------------------
(* MeshConnectionManager and MeshViewerGUI: connect, disconnect, refresh *)

\* MeshConnectionManager.__init__, and the manager after disconnect
Disconnected ==
    [interface |-> <<>>, connection_type |-> <<>>, connection_params |-> <<>>]

\* the manager after a connect call that succeeded
ConnectedBy(type) ==
    [interface |-> <<type>>, connection_type |-> <<type>>,
     connection_params |-> <<type>>]

\* what a handler leaves in `event`: its name, and whether it went past its
\* guard (refresh_nodes) or its connect call succeeded (connect_tcp,
\* connect_serial)
Handled(handler, done) == [handler |-> handler, done |-> done]

NoEvent == Handled("none", FALSE)

\* MeshViewerApp.run once it has registered its handlers, with self.app
\* still None: no cleanup call in progress, close() never called, no signal
\* delivered
AppStarted ==
    [pc |-> "setup", app |-> FALSE, frames |-> <<>>, closes |-> 0, signals |-> 0]

\* MeshViewerApp.run inside ui.run, serving the dashboard
AppServing == [AppStarted EXCEPT !.pc = "serving", !.app = TRUE]

\* MeshViewerGUI.__init__
GuiCreated ==
    /\ shutdown = AppServing
    /\ connection_manager = Disconnected
    /\ mesh_interface = <<>>
    /\ connected = FALSE
    /\ auto_refresh_timer = <<>>
    /\ active_timers = 0
    /\ event = NoEvent
    /\ pending = {}
    /\ cycles = <<>>

\* a start_auto_refresh that creates a timer whether or not one is held
StartedTimersUnguarded(timer, active) == active + 1

\* the timers running after start_auto_refresh: ui.timer is called only when
\* the field is None
StartedTimers(timer, active) == IF timer = <<>> THEN active + 1 ELSE active

\* the timers running after stop_auto_refresh: the timer held is deactivated
StoppedTimers(timer, active) == IF timer # <<>> THEN active - 1 ELSE active

\* start_auto_refresh: a timer is created only when none is held
StartedTimer(timer) == IF timer = <<>> THEN <<"timer">> ELSE timer

\* a connect that drops the connection in place when it fails
ConnectResetting(type, ok, nodes) ==
    /\ event' = Handled(type, ok)
    /\ UNCHANGED <<loop, shutdown>>
    /\ IF ok
       THEN /\ connection_manager' = ConnectedBy(type)
            /\ connected' = TRUE
            /\ mesh_interface' =
                  <<[last_heard_cache |->
                        DetectedCache(nodes, NewMeshInterface.last_heard_cache)]>>
            /\ SaveNodesData(nodes)
            /\ auto_refresh_timer' = StartedTimer(auto_refresh_timer)
            /\ active_timers' = StartedTimers(auto_refresh_timer, active_timers)
       ELSE /\ connection_manager' =
                  [connection_manager EXCEPT !.interface = <<>>]
            /\ UNCHANGED <<now, csv, json, previous_uptimes, last, scenario,
                           mesh_interface, connected, auto_refresh_timer,
                           active_timers>>

\* the body of connect_tcp and connect_serial: the manager's connect call
\* succeeds (ok) or fails; on success a new MeshInterface is created, then
\* refresh_nodes runs on it and the timer is started
Connect(type, ok, nodes) ==
    /\ event' = Handled(type, ok)
    /\ UNCHANGED <<loop, shutdown>>
    /\ IF ok
       THEN /\ connection_manager' = ConnectedBy(type)
            /\ connected' = TRUE
            /\ mesh_interface' =
                  <<[last_heard_cache |->
                        DetectedCache(nodes, NewMeshInterface.last_heard_cache)]>>
            /\ SaveNodesData(nodes)
            /\ auto_refresh_timer' = StartedTimer(auto_refresh_timer)
            /\ active_timers' = StartedTimers(auto_refresh_timer, active_timers)
       ELSE UNCHANGED <<now, csv, json, previous_uptimes, last, scenario,
                        connection_manager, mesh_interface, connected,
                        auto_refresh_timer, active_timers>>

ConnectTcp(ok, nodes) == Connect("tcp", ok, nodes)

ConnectSerial(ok, nodes) == Connect("serial", ok, nodes)

\* MeshConnectionManager.is_connected
IsConnected(manager) == manager.interface # <<>>

\* a disconnect handler that clears the dashboard's fields and leaves the
\* manager's interface in place
DisconnectGuiOnly ==
    /\ auto_refresh_timer' = <<>>
    /\ active_timers' = StoppedTimers(auto_refresh_timer, active_timers)
    /\ mesh_interface' = <<>>
    /\ connected' = FALSE
    /\ event' = Handled("disconnect", TRUE)
    /\ UNCHANGED <<now, csv, json, previous_uptimes, last, scenario, loop,
                   connection_manager, shutdown>>

Disconnect ==
    /\ auto_refresh_timer' = <<>>
    /\ active_timers' = StoppedTimers(auto_refresh_timer, active_timers)
    /\ connection_manager' = Disconnected
    /\ mesh_interface' = <<>>
    /\ connected' = FALSE
    /\ event' = Handled("disconnect", TRUE)
    /\ UNCHANGED <<now, csv, json, previous_uptimes, last, scenario, loop, shutdown>>

\* refresh_nodes, called by the timer, the Refresh button and the toggles
\* a refresh that saves what it is given even while disconnected
RefreshNodesAlways(nodes) ==
    /\ event' = Handled("refresh_nodes", connected /\ mesh_interface # <<>>)
    /\ UNCHANGED <<loop, shutdown>>
    /\ mesh_interface' =
          IF mesh_interface = <<>> THEN mesh_interface
          ELSE <<[last_heard_cache |->
                    DetectedCache(nodes, mesh_interface[1].last_heard_cache)]>>
    /\ SaveNodesData(nodes)
    /\ UNCHANGED <<connection_manager, connected, auto_refresh_timer, active_timers>>

RefreshNodes(nodes) ==
    /\ event' = Handled("refresh_nodes", connected /\ mesh_interface # <<>>)
    /\ UNCHANGED <<loop, shutdown>>
    /\ IF ~connected \/ mesh_interface = <<>>
       THEN UNCHANGED <<now, csv, json, previous_uptimes, last, scenario,
                        connection_manager, mesh_interface, connected,
                        auto_refresh_timer, active_timers>>
       ELSE /\ mesh_interface' =
                  <<[last_heard_cache |->
                        DetectedCache(nodes, mesh_interface[1].last_heard_cache)]>>
            /\ SaveNodesData(nodes)
            /\ UNCHANGED <<connection_manager, connected, auto_refresh_timer, active_timers>>

---------------------------------------------------------------------------
(* The event loop of the dashboard: triggers, and save_nodes_data in steps *)

\* what calls refresh_nodes: the 300 s timer, the Refresh button, the two
\* display toggles, and connect_tcp
Triggers == {"timer", "refresh_button", "toggle", "connect_tcp"}

\* interface.nodes as the dashboard's handlers find it: A and B heard, or A
\* alone heard later
LoopViews ==
    {v \in RadioViews :
        /\ \A id \in DOMAIN v : Len(v[id].deviceMetrics) = 1
        /\ v["A"].lastHeard = (IF DOMAIN v = NodeIds THEN <<100>> ELSE <<200>>)}

\* a trigger is raised: the timer exists once a connect has started it, the
\* Refresh button shows only while connected
Raise(trigger) ==
    /\ trigger \notin pending
    /\ trigger = "timer" => auto_refresh_timer # <<>>
    /\ trigger = "refresh_button" => connected
    /\ pending' = pending \cup {trigger}
    /\ UNCHANGED <<now, csv, json, previous_uptimes, last, scenario,
                   connection_manager, mesh_interface, connected,
                   auto_refresh_timer, active_timers, event, cycles, shutdown>>

\* a loop that starts a handler while another is still running
LoopAlwaysFree == TRUE

\* the handlers are plain functions: the loop calls one and gets control
\* back when it returns, so it starts the next only when none is running
LoopIdle == cycles = <<>>

\* save_nodes_data entered: the clock read, nothing checked or written yet
EnteredSave(trigger, nodes_data) ==
    [pc |-> "throttle", trigger |-> trigger, nodes_data |-> nodes_data,
     timestamp |-> now, accepted |-> {}, unwritten |-> <<>>,
     record |-> <<>>, arg |-> 0, overlapped |-> FALSE]

\* the handler of a trigger starts and runs up to the first line of
\* save_nodes_data, or returns before it (connect failed, not connected)
Start(trigger, ok, nodes) ==
    /\ UNCHANGED shutdown
    /\ trigger \in pending
    /\ LoopIdle
    /\ pending' = pending \ {trigger}
    /\ UNCHANGED <<now, csv, json, previous_uptimes, last, scenario,
                   auto_refresh_timer, active_timers>>
    /\ IF trigger = "connect_tcp"
       THEN /\ event' = Handled("tcp", ok)
            /\ IF ok
               THEN /\ connection_manager' = ConnectedBy("tcp")
                    /\ connected' = TRUE
                    /\ mesh_interface' =
                          <<[last_heard_cache |->
                                DetectedCache(nodes, NewMeshInterface.last_heard_cache)]>>
                    /\ cycles' = Append(cycles, EnteredSave(trigger, nodes))
               ELSE UNCHANGED <<connection_manager, connected, mesh_interface,
                                cycles, shutdown>>
       ELSE /\ event' = Handled("refresh_nodes", connected /\ mesh_interface # <<>>)
            /\ UNCHANGED <<connection_manager, connected>>
            /\ IF ~connected \/ mesh_interface = <<>>
               THEN UNCHANGED <<mesh_interface, cycles, shutdown>>
               ELSE /\ mesh_interface' =
                          <<[last_heard_cache |->
                                DetectedCache(nodes, mesh_interface[1].last_heard_cache)]>>
                    /\ cycles' = Append(cycles, EnteredSave(trigger, nodes))

\* a sequence without its i-th element
Without(seq, i) == SubSeq(seq, 1, i - 1) \o SubSeq(seq, i + 1, Len(seq))

\* save_nodes_data returns and the handler ends: connect_tcp starts the timer
Returns(i, call) ==
    /\ UNCHANGED shutdown
    /\ cycles' = Without(cycles, i)
    /\ last' = call
    /\ auto_refresh_timer' =
          IF cycles[i].trigger = "connect_tcp"
          THEN StartedTimer(auto_refresh_timer) ELSE auto_refresh_timer
    /\ active_timers' =
          IF cycles[i].trigger = "connect_tcp"
          THEN StartedTimers(auto_refresh_timer, active_timers) ELSE active_timers

\* lines 79-166: the throttle check, then the rows and the record prepared
SaveThrottleCheck(i) ==
    /\ UNCHANGED shutdown
    /\ i \in 1..Len(cycles)
    /\ cycles[i].pc = "throttle"
    /\ LET c == cycles[i]
           accepted == Accepted(c.nodes_data, previous_uptimes)
       IN IF Throttled(csv, c.timestamp)
          THEN Returns(i, Call("save", c.timestamp, "", c.nodes_data, TRUE, {}, <<>>))
          ELSE /\ cycles' =
                     [cycles EXCEPT ![i] =
                        [c EXCEPT
                           !.pc = "csv",
                           !.accepted = accepted,
                           !.unwritten = CsvRows(c.nodes_data, accepted, c.timestamp, 1),
                           !.record = <<JsonRecord(c.nodes_data, accepted, c.timestamp)>>]]
               /\ UNCHANGED <<last, auto_refresh_timer, active_timers>>
    /\ UNCHANGED <<now, csv, json, previous_uptimes, scenario,
                   connection_manager, mesh_interface, connected, event, pending>>

\* lines 169-171: the rows reach the file when the buffer is flushed, k of
\* them at a time, the last of them when the file is closed
SaveFlushCsv(i, k) ==
    /\ UNCHANGED shutdown
    /\ i \in 1..Len(cycles)
    /\ cycles[i].pc = "csv"
    /\ k \in 0..Len(cycles[i].unwritten)
    /\ k = 0 => cycles[i].unwritten = <<>>
    /\ LET c == cycles[i]
           rest == SubSeq(c.unwritten, k + 1, Len(c.unwritten))
       IN /\ csv' = csv \o SubSeq(c.unwritten, 1, k)
          /\ cycles' =
                [cycles EXCEPT ![i] =
                   [c EXCEPT !.unwritten = rest,
                             !.pc = IF rest = <<>> THEN "json" ELSE "csv"]]
    /\ UNCHANGED <<now, json, previous_uptimes, last, scenario,
                   connection_manager, mesh_interface, connected,
                   auto_refresh_timer, active_timers, event, pending>>

\* lines 174-175
SaveWriteJson(i) ==
    /\ UNCHANGED shutdown
    /\ i \in 1..Len(cycles)
    /\ cycles[i].pc = "json"
    /\ json' = json \o cycles[i].record
    /\ cycles' = [cycles EXCEPT ![i] = [cycles[i] EXCEPT !.pc = "baselines"]]
    /\ UNCHANGED <<now, csv, previous_uptimes, last, scenario,
                   connection_manager, mesh_interface, connected,
                   auto_refresh_timer, active_timers, event, pending>>

\* lines 178-183
SaveUpdateBaselines(i) ==
    /\ i \in 1..Len(cycles)
    /\ cycles[i].pc = "baselines"
    /\ LET c == cycles[i]
       IN /\ previous_uptimes' = UpdatedUptimes(c.nodes_data, previous_uptimes)
          /\ Returns(i, Call("save", c.timestamp, "", c.nodes_data, FALSE, c.accepted,
                             CsvRows(c.nodes_data, c.accepted, c.timestamp, 1)))
    /\ UNCHANGED <<now, csv, json, scenario, connection_manager,
                   mesh_interface, connected, event, pending>>

---------------------------------------------------------------------------
(* A process started on a fresh data directory *)

NoCall == Call("none", 0, "", <<>>, FALSE, {}, <<>>)

Init ==
    /\ now = StartTime
    /\ csv = <<>>
    /\ json = <<>>
    /\ previous_uptimes = LoadPreviousUptimes(csv)
    /\ last = NoCall
    /\ scenario = 0
    /\ GuiCreated

Next ==
    \/ \E t \in Instants : Tick(t)
    \/ \E nodes_data \in Snapshots :
          SaveNodesData(nodes_data) /\ UNCHANGED gui
    \/ \E days \in DaysArgs : GetBatteryHistory(days)
    \/ \E id \in NodeIds, days \in DaysArgs : GetNodeBatteryHistory(id, days)
    \/ \E days_to_keep \in DaysToKeepArgs : CleanupOldData(days_to_keep)

Spec == Init /\ [][Next]_vars

\* the writer alone: polls, and time passing between them
NextSave ==
    \/ \E t \in Instants : Tick(t)
    \/ \E nodes_data \in Snapshots :
          SaveNodesData(nodes_data) /\ UNCHANGED gui

SpecSave == Init /\ [][NextSave]_vars

\* the writer on a disk whose writes can fail
NextFail ==
    \/ \E t \in Instants : Tick(t)
    \/ \E nodes_data \in LoopViews :
          Len(json) < MaxLogRecords /\ SaveNodesData(nodes_data) /\ UNCHANGED gui
    \/ \E nodes_data \in LoopViews, at \in {"csv", "json"}, k \in 0..Len(NodeOrder) :
          Len(json) < MaxLogRecords /\ SaveNodesDataFails(nodes_data, at, k)

SpecFail == Init /\ [][NextFail]_vars

\* the writer, the retention manager and the record stream's reader, under a
\* wall clock that may step backwards
NextLog ==
    \/ \E t \in Instants : SetClock(t)
    \/ \E nodes_data \in Snapshots :
          Len(json) < MaxLogRecords /\ SaveNodesData(nodes_data) /\ UNCHANGED gui
    \/ \E days_to_keep \in DaysToKeepArgs : CleanupOldData(days_to_keep)
    \/ GetLatestData

SpecLog == Init /\ [][NextLog]_vars

---------------------------------------------------------------------------
(* The dashboard, and the command line's monitoring loop *)

\* a handler that reaches save_nodes_data runs only below the bound
GuiSaveAllowed == Len(json) < MaxGuiRecords

NextGui ==
    \/ \E t \in Instants : Tick(t)
    \/ \E ok \in BOOLEAN, nodes \in RadioViews :
          (ok => GuiSaveAllowed) /\ ConnectTcp(ok, nodes)
    \/ \E ok \in BOOLEAN, nodes \in RadioViews :
          (ok => GuiSaveAllowed) /\ ConnectSerial(ok, nodes)
    \/ Disconnect
    \/ \E nodes \in RadioViews :
          ((connected /\ mesh_interface # <<>>) => GuiSaveAllowed)
          /\ RefreshNodes(nodes)

SpecGui == Init /\ [][NextGui]_vars

---------------------------------------------------------------------------
(* The connected dashboard polling every 300 seconds *)

\* ui.timer(300.0, self.refresh_nodes)
RefreshPeriod == 300

\* the grain of the clock while the dashboard polls
ClockStep == ThrottleSeconds \div 4

\* interface.nodes while node A keeps reporting: 1.0 or 1.05 hours of uptime
PollingViews ==
    {[id \in {"A"} |->
         [deviceMetrics |-> <<[uptimeSeconds |-> <<u>>]>>, lastHeard |-> <<100>>]] :
       u \in {3600, 3780}}

\* the uptime A reports is at least 0.01 h away from A's baseline
MovedFromBaseline(nodes) ==
    ~UptimeUnchanged(UptimeHours(nodes["A"]), Get(previous_uptimes, "A", 0))

\* connect_tcp succeeds as the process starts
PollingConnects(nodes) ==
    /\ ~connected
    /\ now = StartTime
    /\ MovedFromBaseline(nodes)
    /\ ConnectTcp(TRUE, nodes)

\* time passes while no handler is waiting; the timer falls due at every
\* multiple of its period
ClockAdvances ==
    /\ connected
    /\ pending = {}
    /\ now + ClockStep <= StartTime + MaxPeriods * RefreshPeriod
    /\ now' = now + ClockStep
    /\ pending' =
          IF (now' - StartTime) % RefreshPeriod = 0 THEN {"timer"} ELSE {}
    /\ UNCHANGED <<csv, json, previous_uptimes, last, scenario,
                   connection_manager, mesh_interface, connected,
                   auto_refresh_timer, active_timers, event, cycles, shutdown>>

\* the Refresh button pressed
ManualRefresh ==
    /\ cycles = <<>>
    /\ Raise("refresh_button")

\* refresh_nodes run for a waiting trigger, on nodes whose uptime moved
Polls(trigger, nodes) ==
    /\ trigger \in pending
    /\ connected
    /\ mesh_interface # <<>>
    /\ MovedFromBaseline(nodes)
    /\ pending' = pending \ {trigger}
    /\ event' = Handled("refresh_nodes", TRUE)
    /\ mesh_interface' =
          <<[last_heard_cache |->
                DetectedCache(nodes, mesh_interface[1].last_heard_cache)]>>
    /\ SaveNodesData(nodes)
    /\ UNCHANGED <<connection_manager, connected, auto_refresh_timer,
                   active_timers, cycles, shutdown>>

NextPolling ==
    \/ \E nodes \in PollingViews : PollingConnects(nodes)
    \/ ClockAdvances
    \/ ManualRefresh
    \/ \E trigger \in Triggers, nodes \in PollingViews : Polls(trigger, nodes)

\* the clock goes on however often the button is pressed, and the event loop
\* runs the handler of each trigger that waits
SpecPolling ==
    /\ Init
    /\ [][NextPolling]_vars
    /\ WF_vars(\E nodes \in PollingViews : PollingConnects(nodes))
    /\ SF_vars(ClockAdvances)
    /\ \A trigger \in Triggers :
          WF_vars(\E nodes \in PollingViews : Polls(trigger, nodes))

---------------------------------------------------------------------------
(* MeshViewerApp: run, the signal handler, cleanup (src/main.py) *)

\* a cleanup call as it starts: `if self.app and hasattr(...)` sends it into
\* connection_manager.disconnect() or past it
Frame(by, app) ==
    [by |-> by, pc |-> IF app THEN "disconnect" ELSE "return", raised |-> FALSE]

\* the cleanup call that is running: the innermost one
Top == shutdown.frames[Len(shutdown.frames)]

\* the innermost cleanup call moves to another place
TopAt(pc) ==
    [shutdown.frames EXCEPT ![Len(shutdown.frames)] = [@ EXCEPT !.pc = pc]]

\* SIGINT or SIGTERM is delivered: the interpreter runs signal_handler on top
\* of whatever the main thread is doing, and signal_handler calls cleanup
Signal ==
    /\ shutdown.pc # "done"
    /\ shutdown.signals < MaxSignals
    /\ shutdown' = [shutdown EXCEPT
                       !.signals = @ + 1,
                       !.frames = Append(@, Frame("signal", shutdown.app))]
    /\ UNCHANGED <<now, csv, json, previous_uptimes, last, scenario,
                   connection_manager, mesh_interface, connected,
                   auto_refresh_timer, active_timers, event, loop>>

\* disconnect: `if self.interface:` then the call of self.interface.close()
ManagerDisconnects ==
    /\ shutdown.frames # <<>>
    /\ Top.pc = "disconnect"
    /\ shutdown' =
          IF connection_manager.interface # <<>>
          THEN [shutdown EXCEPT !.closes = @ + 1, !.frames = TopAt("close")]
          ELSE [shutdown EXCEPT !.frames = TopAt("return")]
    /\ UNCHANGED <<now, csv, json, previous_uptimes, last, scenario,
                   connection_manager, mesh_interface, connected,
                   auto_refresh_timer, active_timers, event, loop>>

\* close() returns or raises: the except branch prints, the finally branch
\* sets the three fields to None
CloseReturns(raises) ==
    /\ shutdown.frames # <<>>
    /\ Top.pc = "close"
    /\ connection_manager' = Disconnected
    /\ shutdown' = [shutdown EXCEPT
          !.frames[Len(shutdown.frames)] = [@ EXCEPT !.pc = "return", !.raised = raises]]
    /\ UNCHANGED <<now, csv, json, previous_uptimes, last, scenario,
                   mesh_interface, connected, auto_refresh_timer,
                   active_timers, event, loop>>

\* cleanup called by the finally block of run or by atexit returns
\* (self.server is None: ui.run returns nothing)
CleanupReturns ==
    /\ shutdown.frames # <<>>
    /\ Top.pc = "return"
    /\ Top.by # "signal"
    /\ shutdown' = [shutdown EXCEPT
                       !.frames = <<>>,
                       !.pc = IF Top.by = "finally" THEN "exiting" ELSE "done"]
    /\ UNCHANGED <<now, csv, json, previous_uptimes, last, scenario,
                   connection_manager, mesh_interface, connected,
                   auto_refresh_timer, active_timers, event, loop>>

\* where the main thread is once SystemExit has left what it was doing: out
\* of the try block into finally, out of finally or of run to the exit hooks
Unwound(pc) ==
    CASE pc = "serving" -> "finally"
      [] pc = "in_atexit" -> "done"
      [] OTHER -> "exiting"

\* cleanup called by signal_handler returns and sys.exit(0) raises
\* SystemExit at the place the signal interrupted: every call under the
\* handler is left, a disconnect left inside close() by its finally branch
SignalHandlerExits ==
    /\ shutdown.frames # <<>>
    /\ Top.pc = "return"
    /\ Top.by = "signal"
    /\ connection_manager' =
          IF \E i \in 1..Len(shutdown.frames) : shutdown.frames[i].pc = "close"
          THEN Disconnected
          ELSE connection_manager
    /\ shutdown' = [shutdown EXCEPT !.frames = <<>>, !.pc = Unwound(shutdown.pc)]
    /\ UNCHANGED <<now, csv, json, previous_uptimes, last, scenario,
                   mesh_interface, connected, auto_refresh_timer,
                   active_timers, event, loop>>

\* run: self.app = MeshViewerGUI(...), setup_ui, then ui.run
GuiStarts ==
    /\ shutdown.pc = "setup"
    /\ shutdown.frames = <<>>
    /\ shutdown' = [shutdown EXCEPT !.pc = "serving", !.app = TRUE]
    /\ UNCHANGED <<now, csv, json, previous_uptimes, last, scenario,
                   connection_manager, mesh_interface, connected,
                   auto_refresh_timer, active_timers, event, loop>>

\* the dashboard's handlers run while ui.run serves and no signal handler is
\* running
Serving ==
    /\ shutdown.pc = "serving"
    /\ shutdown.frames = <<>>

\* ui.run returns, or raises one of the exceptions run catches
ServerStops ==
    /\ Serving
    /\ shutdown' = [shutdown EXCEPT !.pc = "finally"]
    /\ UNCHANGED <<now, csv, json, previous_uptimes, last, scenario,
                   connection_manager, mesh_interface, connected,
                   auto_refresh_timer, active_timers, event, loop>>

\* cleanup called from the main thread
CleanupCalled(by, then) ==
    /\ shutdown.frames = <<>>
    /\ shutdown' = [shutdown EXCEPT
                       !.pc = then,
                       !.frames = <<Frame(by, shutdown.app)>>]
    /\ UNCHANGED <<now, csv, json, previous_uptimes, last, scenario,
                   connection_manager, mesh_interface, connected,
                   auto_refresh_timer, active_timers, event, loop>>

\* run's finally block calls cleanup
FinallyCleanup ==
    /\ shutdown.pc = "finally"
    /\ CleanupCalled("finally", "in_finally")

\* the interpreter exits and runs the hook registered with atexit
AtexitCleanup ==
    /\ shutdown.pc = "exiting"
    /\ CleanupCalled("atexit", "in_atexit")

InitShutdown ==
    /\ now = StartTime
    /\ csv = <<>>
    /\ json = <<>>
    /\ previous_uptimes = LoadPreviousUptimes(csv)
    /\ last = NoCall
    /\ scenario = 0
    /\ connection_manager = Disconnected
    /\ mesh_interface = <<>>
    /\ connected = FALSE
    /\ auto_refresh_timer = <<>>
    /\ active_timers = 0
    /\ event = NoEvent
    /\ pending = {}
    /\ cycles = <<>>
    /\ shutdown = AppStarted

NextShutdown ==
    \/ GuiStarts
    \/ \E ok \in BOOLEAN, nodes \in LoopViews :
          Serving /\ (ok => GuiSaveAllowed) /\ ConnectTcp(ok, nodes)
    \/ Serving /\ Disconnect
    \/ ServerStops
    \/ Signal
    \/ ManagerDisconnects
    \/ \E raises \in BOOLEAN : CloseReturns(raises)
    \/ SignalHandlerExits
    \/ FinallyCleanup
    \/ AtexitCleanup
    \/ CleanupReturns

SpecShutdown == InitShutdown /\ [][NextShutdown]_vars

---------------------------------------------------------------------------
(* cleanup_old_data in steps *)

\* lines 276-284: the table read and filtered in memory; the call returns at
\* line 278 when the frame is empty
CleanupReads(days_to_keep) ==
    /\ UNCHANGED shutdown
    /\ cycles = <<>>
    /\ scenario' = ScenarioOff
    /\ IF BatteryHistory(csv, days_to_keep * 2 * MilliPerDay) = <<>>
       THEN /\ last' = Call("cleanup", days_to_keep, "", <<>>, FALSE, {}, <<>>)
            /\ UNCHANGED <<cycles, shutdown>>
       ELSE /\ cycles' =
                  <<[pc |-> "truncate", trigger |-> "cleanup", nodes_data |-> <<>>,
                     timestamp |-> now, accepted |-> {},
                     unwritten |-> CleanedUp(csv, days_to_keep),
                     record |-> <<>>, arg |-> days_to_keep, overlapped |-> FALSE]>>
            /\ UNCHANGED last
    /\ UNCHANGED <<now, csv, json, previous_uptimes, connection_manager,
                   mesh_interface, connected, auto_refresh_timer, active_timers, event, pending>>

\* line 287: to_csv opens the table's own path for writing, which empties it
CleanupTruncates(i) ==
    /\ UNCHANGED shutdown
    /\ i \in 1..Len(cycles)
    /\ cycles[i].pc = "truncate"
    /\ csv' = <<>>
    /\ cycles' = [cycles EXCEPT ![i] = [cycles[i] EXCEPT !.pc = "rewrite"]]
    /\ UNCHANGED <<now, json, previous_uptimes, last, scenario,
                   connection_manager, mesh_interface, connected,
                   auto_refresh_timer, active_timers, event, pending>>

\* line 287: the kept rows reach the file k at a time; the call returns when
\* the last of them is written and the file closed
CleanupRewrites(i, k) ==
    /\ UNCHANGED shutdown
    /\ i \in 1..Len(cycles)
    /\ cycles[i].pc = "rewrite"
    /\ k \in 0..Len(cycles[i].unwritten)
    /\ k = 0 => cycles[i].unwritten = <<>>
    /\ LET c == cycles[i]
           rest == SubSeq(c.unwritten, k + 1, Len(c.unwritten))
       IN /\ csv' = csv \o SubSeq(c.unwritten, 1, k)
          /\ IF rest = <<>>
             THEN /\ cycles' = Without(cycles, i)
                  /\ last' = Call("cleanup", c.arg, "", <<>>, FALSE, {}, <<>>)
             ELSE /\ cycles' = [cycles EXCEPT ![i] = [c EXCEPT !.unwritten = rest]]
                  /\ UNCHANGED last
    /\ UNCHANGED <<now, json, previous_uptimes, scenario,
                   connection_manager, mesh_interface, connected,
                   auto_refresh_timer, active_timers, event, pending>>

\* a process that polls and trims, and a reader of the table at any moment
NextTrim ==
    \/ \E t \in Instants : Tick(t)
    \/ \E nodes_data \in LoopViews :
          Len(json) < MaxLogRecords /\ SaveNodesData(nodes_data) /\ UNCHANGED gui
    \/ \E days_to_keep \in DaysToKeepArgs : CleanupReads(days_to_keep)
    \/ \E i \in 1..MaxTasks : CleanupTruncates(i)
    \/ \E i \in 1..MaxTasks, k \in 0..MaxLogRecords * Len(NodeOrder) : CleanupRewrites(i, k)
    \/ \E days \in DaysArgs : GetBatteryHistory(days)

SpecTrim == Init /\ [][NextTrim]_vars

\* the instants of a process that is still running two days later
RetentionInstants == Instants \cup {2 * SecondsPerDay}

\* a long-running process that polls, trims and reads the record stream
NextRetention ==
    \/ \E t \in RetentionInstants : Tick(t)
    \/ \E nodes_data \in LoopViews :
          Len(json) < MaxLogRecords /\ SaveNodesData(nodes_data) /\ UNCHANGED gui
    \/ \E days_to_keep \in DaysToKeepArgs : CleanupOldData(days_to_keep)
    \/ GetLatestData

SpecRetention == Init /\ [][NextRetention]_vars

\* a caller enters save_nodes_data, possibly while other calls are between
\* their first line and their return; `overlapped` records for each call
\* whether another was in progress at some moment of it
SaveEnters(nodes_data) ==
    /\ UNCHANGED shutdown
    /\ cycles' =
          Append([i \in 1..Len(cycles) |-> [cycles[i] EXCEPT !.overlapped = TRUE]],
                 [EnteredSave("caller", nodes_data) EXCEPT !.overlapped = cycles # <<>>])
    /\ UNCHANGED <<now, csv, json, previous_uptimes, last, scenario,
                   connection_manager, mesh_interface, connected,
                   auto_refresh_timer, active_timers, event, pending>>

\* the dashboard's handlers as its event loop runs them
LoopSaveAllowed == Len(json) + Len(cycles) < MaxLoopRecords

NextLoop ==
    \/ \E t \in Instants : Tick(t)
    \/ \E trigger \in Triggers : Raise(trigger)
    \/ \E trigger \in Triggers, ok \in BOOLEAN, nodes \in LoopViews :
          LoopSaveAllowed /\ Start(trigger, ok, nodes)
    \/ \E i \in 1..MaxTasks : SaveThrottleCheck(i)
    \/ \E i \in 1..MaxTasks, k \in 0..Len(NodeOrder) : SaveFlushCsv(i, k)
    \/ \E i \in 1..MaxTasks : SaveWriteJson(i)
    \/ \E i \in 1..MaxTasks : SaveUpdateBaselines(i)

SpecLoop == Init /\ [][NextLoop]_vars

\* the dashboard's handlers, and a second user of the same data directory
\* (another process or thread holding a DataPersistence) that queries at
\* any moment
NextShared ==
    \/ NextLoop
    \/ \E days \in DaysArgs : GetBatteryHistory(days)
    \/ GetLatestData
    \/ GetDataSummary

SpecShared == Init /\ [][NextShared]_vars

\* cli.main in continuous mode: the manager connected, a MeshInterface
\* created, no DataPersistence and no GUI
InitCli ==
    /\ now = StartTime
    /\ csv = <<>>
    /\ json = <<>>
    /\ previous_uptimes = << >>
    /\ last = NoCall
    /\ scenario = 0
    /\ connection_manager = ConnectedBy("tcp")
    /\ mesh_interface = <<NewMeshInterface>>
    /\ shutdown = AppStarted
    /\ connected = FALSE
    /\ auto_refresh_timer = <<>>
    /\ active_timers = 0
    /\ event = NoEvent
    /\ pending = {}
    /\ cycles = <<>>

\* the rounds of continuous_text, and time.sleep(interval) between them
NextCli ==
    \/ \E t \in Instants : Tick(t)
    \/ \E nodes \in RadioViews : DetectLastHeardChanges(nodes)

SpecCli == InitCli /\ [][NextCli]_vars

---------------------------------------------------------------------------
(* A process started on the table an earlier run (or a crash) left behind *)

\* the ages, in seconds before the start, of the rows of such a table:
\* 0.2 h, 3 h, one minute, and three days
SeedAges == {720, 10800, 60, 3 * SecondsPerDay}

SeedRows ==
    {Row(ts, "A", up) :
        ts \in {StartTime - a : a \in SeedAges} \cup {BadTimestamp}, up \in {3600, 3780}}
    \cup {Row(ts, "B", 3600) :
        ts \in {StartTime - a : a \in SeedAges} \cup {BadTimestamp}}

SeedLogs == UNION {[1..n -> SeedRows] : n \in 0..MaxSeedRows}

InitSeeded ==
    /\ now = StartTime
    /\ csv \in SeedLogs
    /\ json = <<>>
    /\ previous_uptimes = LoadPreviousUptimes(csv)
    /\ last = NoCall
    /\ scenario = IF csv = <<>> THEN 0 ELSE ScenarioOff
    /\ GuiCreated

\* the read side and the retention manager, on any such table
NextQuery ==
    \/ \E days \in DaysArgs : GetBatteryHistory(days)
    \/ \E id \in NodeIds, days \in DaysArgs : GetNodeBatteryHistory(id, days)
    \/ \E days_to_keep \in DaysToKeepArgs : CleanupOldData(days_to_keep)
    \/ GetDataSummary

SpecQuery == InitSeeded /\ [][NextQuery]_vars

\* a restarted process that polls, queries and trims
NextRestart ==
    \/ \E nodes_data \in Snapshots :
          Len(json) < MaxRestartRecords /\ SaveNodesData(nodes_data) /\ UNCHANGED gui
    \/ \E days \in DaysArgs : GetBatteryHistory(days)
    \/ \E id \in NodeIds, days \in DaysArgs : GetNodeBatteryHistory(id, days)
    \/ \E days_to_keep \in DaysToKeepArgs : CleanupOldData(days_to_keep)

SpecRestart == InitSeeded /\ [][NextRestart]_vars

\* the polls of a restarted process: every node reports 1.0 or 1.05 hours,
\* the uptimes of the rows found in the table
RestartPolls ==
    {s \in Snapshots :
        \A id \in DOMAIN s :
           /\ HasMetrics(s, id)
           /\ GetOpt(s[id].deviceMetrics[1].uptimeSeconds, 0) \in {3600, 3780}}

\* a restarted process that polls
NextHydrated ==
    \E nodes_data \in RestartPolls :
       Len(json) < MaxRestartRecords /\ SaveNodesData(nodes_data) /\ UNCHANGED gui

SpecHydrated == InitSeeded /\ [][NextHydrated]_vars

\* a restarted process that polls and reads
NextRead ==
    \/ NextHydrated
    \/ \E days \in DaysArgs : GetBatteryHistory(days)
    \/ \E id \in NodeIds, days \in DaysArgs : GetNodeBatteryHistory(id, days)
    \/ GetLatestData
    \/ GetDataSummary

SpecRead == InitSeeded /\ [][NextRead]_vars

\* the threads of control that call save_nodes_data: the claim's two callers
Callers == {"first", "second"}

\* save_nodes_data called by two threads of control
NextOverlap ==
    \/ \E t \in Instants : Tick(t)
    \/ \E nodes_data \in RestartPolls :
          LoopSaveAllowed /\ Len(cycles) < Cardinality(Callers) /\ SaveEnters(nodes_data)
    \/ \E i \in 1..MaxTasks : SaveThrottleCheck(i)
    \/ \E i \in 1..MaxTasks, k \in 0..Len(NodeOrder) : SaveFlushCsv(i, k)
    \/ \E i \in 1..MaxTasks : SaveWriteJson(i)
    \/ \E i \in 1..MaxTasks : SaveUpdateBaselines(i)

SpecOverlap == Init /\ [][NextOverlap]_vars

---------------------------------------------------------------------------
(* Properties *)

\* a step of save_nodes_data: the call recorded after the step is a save and
\* the clock did not move (a clock step leaves `last` as it was)
SaveStep == last'.op = "save" /\ now' = now

\* the step appended a row for the node to the table
RowAppendedFor(id) ==
    /\ Len(csv') > Len(csv)
    /\ SubSeq(csv', 1, Len(csv)) = csv
    /\ \E i \in (Len(csv) + 1)..Len(csv') : csv'[i].node_id = id

\* the timestamps the table holds
ExistingTimestamps(rows) ==
    {rows[i].timestamp : i \in 1..Len(rows)} \ {BadTimestamp}

\* the Change Detector baseline of a node, 0 when it has none
Baseline(id) == IF id \in DOMAIN previous_uptimes THEN previous_uptimes[id] ELSE 0

\* the table holds a row of the node
HasRow(rows, id) == \E i \in 1..Len(rows) : rows[i].node_id = id

\* C1: a save call made less than 240 seconds after the maximum timestamp
\* already present in the table appends no row to the table, whatever the
\* snapshot and whatever the state of the log.
C1_ThrottledSaveWritesNothing ==
    [][(/\ SaveStep
        /\ \E t \in ExistingTimestamps(csv) : now - t < 240)
       => csv' = csv]_vars

\* C2: in a save call that passes the global throttle, a node with a metrics
\* block gets a row if and only if its candidate uptime_hours and its baseline
\* (0 without one) differ by at least 0.01 hours (36/3600), in either direction.
C2_RowIffUptimeMoved ==
    [][(SaveStep /\ ~last'.throttled)
       => \A id \in NodeIds :
            HasMetrics(last'.nodes_data, id) =>
                LET candidate == UptimeHours(last'.nodes_data[id])
                IN RowAppendedFor(id) <=>
                     \/ candidate - Baseline(id) >= 36
                     \/ Baseline(id) - candidate >= 36]_vars

\* C2's case: the last save got past the throttle and wrote a row for a node
\* whose uptime went down since its previous row (a reboot)
C2_RebootWritten ==
    /\ last.op = "save"
    /\ ~last.throttled
    /\ \E i, j \in 1..Len(csv) :
         /\ i < j
         /\ csv[j].timestamp = last.arg
         /\ csv[i].node_id = csv[j].node_id
         /\ csv[j].node_id \in last.written
         /\ csv[j].uptime_hours < csv[i].uptime_hours

\* every baseline is the uptime_hours of the node's most recent table row
BaselinesArePersisted ==
    \A id \in DOMAIN previous_uptimes :
        /\ HasRow(csv, id)
        /\ previous_uptimes[id] = csv[LastRowOf(csv, id)].uptime_hours

\* C3: after any sequence of save calls every baseline equals the uptime_hours
\* of the node's most recently persisted row: a save call keeps it so.
C3_SaveKeepsBaselinesPersisted ==
    [][(SaveStep /\ BaselinesArePersisted) => BaselinesArePersisted']_vars

\* the uptimes differ by less than 0.01 hours
Within(u1, u2) == u1 - u2 < 36 /\ u2 - u1 < 36

\* C4 as stated: when two consecutive save calls report uptimes of a node that
\* differ by less than 0.01 h, the second adds no row for the node, also
\* when the first call was rejected by the global throttle.
C4_Original ==
    [][(SaveStep /\ last.op = "save")
       => \A id \in NodeIds :
            (/\ HasMetrics(last.nodes_data, id)
             /\ HasMetrics(last'.nodes_data, id)
             /\ Within(UptimeHours(last.nodes_data[id]),
                       UptimeHours(last'.nodes_data[id])))
            => ~RowAppendedFor(id)]_vars

\* C4 amended: when two consecutive save calls report uptimes of a node that
\* differ by less than 0.01 h and the first call got past the global throttle,
\* the second adds no row for the node.
C4_SecondPollAddsNoRow ==
    [][(SaveStep /\ last.op = "save" /\ ~last.throttled)
       => \A id \in NodeIds :
            (/\ HasMetrics(last.nodes_data, id)
             /\ HasMetrics(last'.nodes_data, id)
             /\ Within(UptimeHours(last.nodes_data[id]),
                       UptimeHours(last'.nodes_data[id])))
            => ~RowAppendedFor(id)]_vars

\* C4's case: the batch before the last one wrote the node, the last save got
\* past the throttle at a later instant, reported an uptime of the node within
\* 0.01 h of the one written, and added no row for it
C4_UnchangedNodeSkipped ==
    /\ last.op = "save"
    /\ ~last.throttled
    /\ Len(json) >= 2
    /\ json[Len(json)].timestamp = last.arg
    /\ json[Len(json) - 1].timestamp < last.arg
    /\ \E id \in DOMAIN json[Len(json) - 1].nodes :
         /\ HasMetrics(last.nodes_data, id)
         /\ Within(json[Len(json) - 1].nodes[id], UptimeHours(last.nodes_data[id]))
         /\ json[Len(json) - 1].nodes[id] # UptimeHours(last.nodes_data[id])
         /\ id \notin last.written

\* C5 as stated: for a node with no row and no baseline, the first save call
\* that passes the throttle and carries a metrics block for it writes a row.
C5_Original ==
    [][(SaveStep /\ ~last'.throttled)
       => \A id \in NodeIds :
            (/\ id \notin DOMAIN previous_uptimes
             /\ ~HasRow(csv, id)
             /\ HasMetrics(last'.nodes_data, id))
            => RowAppendedFor(id)]_vars

\* C5 amended: for a node with no row and no baseline, the first save call
\* that passes the throttle and carries a metrics block for it writes a row
\* provided the uptime it reports is at least 0.01 hours.
C5_FirstSampleWritten ==
    [][(SaveStep /\ ~last'.throttled)
       => \A id \in NodeIds :
            (/\ id \notin DOMAIN previous_uptimes
             /\ ~HasRow(csv, id)
             /\ HasMetrics(last'.nodes_data, id)
             /\ UptimeHours(last'.nodes_data[id]) >= 36)
            => RowAppendedFor(id)]_vars

\* C5's case: the first batch of a fresh process wrote a row for a node
C5_FirstBatchWritten ==
    /\ last.op = "save"
    /\ ~last.throttled
    /\ Len(json) = 1
    /\ last.written # {}
    /\ csv = last.rows

\* C6: from an empty log, the polls of node A at 0 s (1.0 h), +60 s (1.0 h),
\* +300 s (1.0 h) and +600 s (1.05 h) write 1, 0, 0 and 1 rows, and A's
\* baseline is 1.0 h after each of the first three and 1.05 h after the fourth.
C6_ReferenceScenario ==
    /\ scenario = 1 => Len(csv) = 1 /\ previous_uptimes["A"] = 3600
    /\ scenario = 2 => Len(csv) = 1 + 0 /\ previous_uptimes["A"] = 3600
    /\ scenario = 3 => Len(csv) = 1 + 0 + 0 /\ previous_uptimes["A"] = 3600
    /\ scenario = 4 => Len(csv) = 1 + 0 + 0 + 1 /\ previous_uptimes["A"] = 3780

\* C6's case: the four polls of the scenario have been made
C6_ScenarioCompleted ==
    /\ scenario = 4
    /\ last.op = "save"
    /\ now = StartTime + 600

\* C7 as stated: history never returns a row whose timestamp is earlier than
\* now - window, the window argument being in hours (3.6 s per thousandth).
C7_Original ==
    last.op = "history" =>
        \A i \in 1..Len(last.rows) :
            10 * last.rows[i].timestamp >= 10 * now - 36 * last.arg

\* C7 amended: history never returns a row whose timestamp is earlier than
\* now - window, the window argument being in days (86.4 s per thousandth).
C7_HistoryWithinDays ==
    last.op = "history" =>
        \A i \in 1..Len(last.rows) :
            10 * last.rows[i].timestamp >= 10 * now - 864 * last.arg

\* C7's case: history returned rows and left out a row older than the window
C7_OlderRowLeftOut ==
    /\ last.op = "history"
    /\ last.rows # <<>>
    /\ \E i \in 1..Len(csv) : 10 * csv[i].timestamp < 10 * now - 864 * last.arg

\* the log of the history scenario: one row at now - 3 h, one at now - 0.2 h
HistoryScenarioLog ==
    /\ Len(csv) = 2
    /\ {csv[1].timestamp, csv[2].timestamp} = {now - 10800, now - 720}

\* C8 as stated: on that log, history with window argument 0.5 and no node
\* filter returns only the row at now - 0.2 h.
C8_Original ==
    (HistoryScenarioLog /\ last.op = "history" /\ last.arg = 500) =>
        /\ Len(last.rows) = 1
        /\ last.rows[1].timestamp = now - 720

\* C8 amended: on that log, history with window argument 0.5 (half a day)
\* returns both rows, the older first; with the argument 0.042 (about one
\* hour) it returns only the row at now - 0.2 h.
C8_HistoryScenario ==
    (HistoryScenarioLog /\ last.op = "history") =>
        /\ last.arg = 500 =>
             /\ Len(last.rows) = 2
             /\ last.rows[1].timestamp = now - 10800
             /\ last.rows[2].timestamp = now - 720
        /\ last.arg = 42 =>
             /\ Len(last.rows) = 1
             /\ last.rows[1].timestamp = now - 720

\* C8's case: history was called with 0.5 on the scenario's log
C8_HalfDayOnScenarioLog ==
    /\ HistoryScenarioLog
    /\ last.op = "history"
    /\ last.arg = 500
    /\ Len(last.rows) = 2

\* C9: the per-node query never returns two rows with the same timestamp, and
\* of the table rows of the node that share a timestamp it returns the one
\* written last.
C9_NodeHistoryDistinctTimestamps ==
    last.op = "node_history" =>
        /\ \A i, j \in 1..Len(last.rows) :
             i # j => last.rows[i].timestamp # last.rows[j].timestamp
        /\ \A i \in 1..Len(last.rows) :
             \E k \in 1..Len(csv) :
                /\ csv[k] = last.rows[i]
                /\ \A m \in 1..Len(csv) :
                     (/\ csv[m].node_id = csv[k].node_id
                      /\ csv[m].timestamp = csv[k].timestamp) => m <= k

\* C10: after cleanup_old_data(retain_days) the table holds no row with a
\* timestamp earlier than now - retain_days, whatever it held before.
C10_CleanupLeavesNoOldRow ==
    (last.op = "cleanup" /\ ~ToDatetimeRaises(csv)) =>
        \A i \in 1..Len(csv) : csv[i].timestamp >= now - 86400 * last.arg

\* the rows of a table, as a set
RowSet(rows) == {rows[i] : i \in 1..Len(rows)}

\* the step is a call of cleanup_old_data
CleanupStep == last'.op = "cleanup" /\ now' = now

\* C11: cleanup_old_data(retain_days) keeps every row whose timestamp is at
\* or after now - retain_days, unchanged, and adds no row: the rows after the
\* call are exactly the prior rows with timestamp >= now - retain_days
\* (stated for tables whose timestamps all parse).
C11_CleanupKeepsExactlyRecentRows ==
    [][(CleanupStep /\ ~ToDatetimeRaises(csv)) =>
        LET Recent(r) == r.timestamp >= now - SecondsPerDay * last'.arg
        IN /\ RowSet(csv') = {r \in RowSet(csv) : Recent(r)}
           /\ Len(csv') = Len(SelectSeq(csv, Recent))]_vars

\* C12: get_data_summary on an absent or empty table returns total_records
\* 0, unique_nodes 0 and date_range None; it returns, it does not raise.
C12_SummaryOfEmptyLogIsZero ==
    (last.op = "summary" /\ csv = <<>>) =>
        /\ Len(last.rows) = 1
        /\ last.rows[1].total_records = 0
        /\ last.rows[1].unique_nodes = 0
        /\ last.rows[1].date_range = <<>>

\* C12's case: the summary was asked of an empty table
C12_SummaryAskedOfEmptyLog ==
    /\ last.op = "summary"
    /\ csv = <<>>
    /\ last.rows = <<EmptySummary>>

\* C13: get_latest_data returns the record most recently appended to the
\* record stream, and returns None exactly when the stream is absent or holds
\* no record.
C13_LatestIsLastAppended ==
    last.op = "latest" =>
        /\ last.rows = <<>> <=> json = <<>>
        /\ json # <<>> => last.rows = <<json[Len(json)]>>

\* C13's case: the stream holds several different records and the call
\* returned the last of them
C13_LatestOfSeveral ==
    /\ last.op = "latest"
    /\ Len(json) >= 2
    /\ json[1] # json[Len(json)]
    /\ last.rows = <<json[Len(json)]>>

EntriesOf(record) ==
    {Row(record.timestamp, id, record.nodes[id]) : id \in DOMAIN record.nodes}

\* C15: after any sequence of save calls (no cleanup) the table and the
\* record stream hold the same samples: the entries of every record are
\* exactly the table rows that carry the record's timestamp, and every table
\* row belongs to exactly one record.
C15_TableAndStreamHoldSameSamples ==
    /\ \A k \in 1..Len(json) :
          EntriesOf(json[k]) = {r \in RowSet(csv) : r.timestamp = json[k].timestamp}
    /\ \A i \in 1..Len(csv) :
          Cardinality({k \in 1..Len(json) : csv[i] \in EntriesOf(json[k])}) = 1

\* C16: a save call that gets past the throttle and accepts no node appends
\* no row to the table and no record to the record stream.
C16_EmptySaveAppendsNothing ==
    [][(SaveStep /\ ~last'.throttled /\ last'.written = {})
       => csv' = csv /\ json' = json]_vars

\* C17: save returns the number of samples it wrote in the call: 0 when it
\* was throttled or accepted nothing, otherwise the number of rows appended.
C17_SaveReturnsCountWritten ==
    [][SaveStep => last'.returned = <<Len(csv') - Len(csv)>>]_vars

\* the nodes of a snapshot that come without a deviceMetrics block
WithoutMetrics(nodes_data) ==
    {id \in DOMAIN nodes_data : ~HasMetrics(nodes_data, id)}

\* C18: a node present in the snapshot without a deviceMetrics block gets no
\* table row, no entry in the batch record and no baseline from that save
\* call (the baseline it had, or its absence, stays), and the other nodes of
\* the snapshot are written as the gate decides: past the throttle each of
\* them gets a row iff its uptime moved by 0.01 h, and its baseline is set.
C18_NodeWithoutMetricsLeftOut ==
    [][SaveStep =>
        /\ \A id \in WithoutMetrics(last'.nodes_data) :
              /\ ~RowAppendedFor(id)
              /\ json' # json => id \notin DOMAIN json'[Len(json')].nodes
              /\ id \in DOMAIN previous_uptimes' <=> id \in DOMAIN previous_uptimes
              /\ id \in DOMAIN previous_uptimes =>
                    previous_uptimes'[id] = previous_uptimes[id]
        /\ (WithoutMetrics(last'.nodes_data) # {} /\ ~last'.throttled) =>
              \A id \in DOMAIN last'.nodes_data \ WithoutMetrics(last'.nodes_data) :
                  LET candidate == UptimeHours(last'.nodes_data[id])
                  IN /\ RowAppendedFor(id) <=>
                          AbsDiff(candidate, Baseline(id)) >= 36
                     /\ previous_uptimes'[id] = candidate]_vars

\* C18's case: the last save took a snapshot in which B has no metrics block
\* and A has one; it wrote A's row and B has no row and no baseline
C18_OtherNodeWrittenBesideBareNode ==
    /\ last.op = "save"
    /\ WithoutMetrics(last.nodes_data) = {"B"}
    /\ last.written = {"A"}
    /\ HasRow(csv, "A")
    /\ ~HasRow(csv, "B")
    /\ "B" \notin DOMAIN previous_uptimes

\* the step is a call of detect_last_heard_changes
DetectStep == last'.op = "detect" /\ now' = now

\* C19: detect_last_heard_changes classifies each node of a poll as FirstSeen
\* iff the cache has no entry for it, as Advanced iff an entry exists and the
\* new lastHeard differs from it, and as Unchanged otherwise; after the poll
\* the cache entry of every observed node is the lastHeard just observed.
C19_LastHeardClassification ==
    [][DetectStep =>
        LET nodes == last'.nodes_data
            cache == mesh_interface[1].last_heard_cache
            class == last'.rows[1]
        IN \A id \in HeardNodes(nodes) :
              /\ class[id] = "FirstSeen" <=> id \notin DOMAIN cache
              /\ class[id] = "Advanced" <=>
                    (id \in DOMAIN cache /\ cache[id] # nodes[id].lastHeard[1])
              /\ class[id] = "Unchanged" <=>
                    (id \in DOMAIN cache /\ cache[id] = nodes[id].lastHeard[1])
              /\ id \in DOMAIN mesh_interface'[1].last_heard_cache
              /\ mesh_interface'[1].last_heard_cache[id] = nodes[id].lastHeard[1]]_vars

\* C19's case: a poll found A's lastHeard lower than the cached one and B's
\* as cached; A was classified Advanced, B Unchanged, and the cache follows A
C19_AdvancedAndUnchangedInOnePoll ==
    /\ last.op = "detect"
    /\ DOMAIN last.rows[1] = {"A", "B"}
    /\ last.rows[1]["A"] = "Advanced"
    /\ last.rows[1]["B"] = "Unchanged"
    /\ last.nodes_data["A"].lastHeard = <<100>>
    /\ mesh_interface[1].last_heard_cache["A"] = 100

\* the lastHeard cache the process holds, empty when it holds no MeshInterface
LastHeardCache ==
    IF mesh_interface = <<>> THEN << >> ELSE mesh_interface[1].last_heard_cache

\* C20: across connect, disconnect and reconnect operations within one
\* process an entry once recorded for a node in the lastHeard cache is never
\* dropped.
C20_CacheEntryNeverDropped ==
    [][DOMAIN LastHeardCache \subseteq DOMAIN LastHeardCache']_vars

\* C21: with refresh_nodes called by the timer, the Refresh button, the
\* toggles and connect, no two calls of save_nodes_data are in progress at
\* the same time: a handler never enters save while another is between its
\* throttle check and its baseline update.
C21_OneSaveAtATime ==
    Len(cycles) <= 1

\* C21's case: a save has written its rows and not yet its record, and
\* another trigger is waiting for the loop
C21_TriggerWaitsForSaveInProgress ==
    /\ Len(cycles) = 1
    /\ cycles[1].pc = "json"
    /\ pending # {}

\* a step of get_battery_history
HistoryStep == last'.op = "history" /\ last' # last

\* C22: a history query made while a save is writing its rows returns all
\* the rows of that batch or none of them, never a part.
C22_QueryNeverSeesPartOfABatch ==
    [][HistoryStep =>
          \A i \in 1..Len(cycles) :
             cycles[i].pc = "csv" =>
                LET c == cycles[i]
                    batch == CsvRows(c.nodes_data, c.accepted, c.timestamp, 1)
                    seen == {k \in 1..Len(last'.rows) :
                                last'.rows[k].timestamp = c.timestamp}
                IN Cardinality(seen) \in {0, Len(batch)}]_vars

\* C23: a save in which a write fails does not raise to its caller, adds
\* nothing to the table or to the record stream, and advances no baseline.
C23_FailedWriteSkipsTheCycle ==
    [][(last'.op = "save" /\ last'.failed # <<>> /\ now' = now) =>
          /\ ~last'.raised
          /\ csv' = csv
          /\ json' = json
          /\ previous_uptimes' = previous_uptimes]_vars

\* the rows of a table whose timestamp parses
WellFormed(rows) == {r \in RowSet(rows) : r.timestamp # BadTimestamp}

\* C24: on a table that holds a row with an unparsable timestamp among
\* well-formed rows, get_battery_history does not raise and returns every
\* well-formed row inside the window: the malformed row alone is skipped.
C24_HistorySkipsMalformedRow ==
    (/\ last.op = "history"
     /\ ToDatetimeRaises(csv)
     /\ WellFormed(csv) # {})
    => /\ ~last.raised
       /\ RowSet(last.rows) =
             {r \in WellFormed(csv) : NotBeforeCutoff(r.timestamp, last.arg)}

\* a table as the program writes it: every timestamp parses and no row is
\* stamped earlier than the row before it (C14)
AsWritten(rows) ==
    /\ ~ToDatetimeRaises(rows)
    /\ \A i \in 1..Len(rows) - 1 : rows[i].timestamp <= rows[i + 1].timestamp

\* the uptime_hours of the latest row of a node: of its rows with the
\* greatest timestamp, the one nearest the end of the table
LatestUptime(rows, id) ==
    LET own == {i \in 1..Len(rows) : rows[i].node_id = id}
        latest == CHOOSE i \in own :
                     \A j \in own :
                        \/ rows[j].timestamp < rows[i].timestamp
                        \/ rows[j].timestamp = rows[i].timestamp /\ j <= i
    IN rows[latest].uptime_hours

\* the snapshot reports, for each of its nodes, the uptime of the node's
\* latest row in the table
ReportsLatestRows(nodes_data, rows) ==
    \A id \in DOMAIN nodes_data :
       /\ HasMetrics(nodes_data, id)
       /\ HasRow(rows, id)
       /\ UptimeHours(nodes_data[id]) = LatestUptime(rows, id)

\* C25: a process started on an existing table (as the program writes it)
\* holds, before its first call, exactly one baseline per node with a row,
\* equal to the uptime_hours of that node's latest row; and its first poll,
\* when it reports for each node the uptime of its latest row, writes no row.
C25_HydratedFromLatestRows ==
    [][(last = NoCall /\ AsWritten(csv)) =>
          /\ DOMAIN previous_uptimes = {csv[i].node_id : i \in 1..Len(csv)}
          /\ \A id \in DOMAIN previous_uptimes :
                previous_uptimes[id] = LatestUptime(csv, id)
          /\ (SaveStep /\ ReportsLatestRows(last'.nodes_data, csv)) => csv' = csv]_vars

\* C25's case: the first poll after a restart got past the throttle with the
\* uptimes of the latest rows of a two-node table, and wrote nothing
C25_RestartedPollWroteNothing ==
    /\ last.op = "save"
    /\ ~last.throttled
    /\ last.written = {}
    /\ Len(json) = 1
    /\ AsWritten(csv)
    /\ DOMAIN last.nodes_data = NodeIds
    /\ ReportsLatestRows(last.nodes_data, csv)

\* the step is a call of one of the read operations
ReadStep ==
    /\ last'.op \in {"history", "node_history", "latest", "summary"}
    /\ last' # last

\* C26: get_battery_history, get_node_battery_history, get_latest_data and
\* get_data_summary change neither the baselines nor the table nor the record
\* stream, whatever the table holds and whether or not reading it fails.
C26_ReadsChangeNothing ==
    [][ReadStep =>
          /\ csv' = csv
          /\ json' = json
          /\ previous_uptimes' = previous_uptimes]_vars

\* C26's case: after a poll, a history query hit a read error on a table
\* with an unparsable timestamp and came back empty
C26_ReadErrorAfterPoll ==
    /\ last.op = "history"
    /\ ToDatetimeRaises(csv)
    /\ WellFormed(csv) # {}
    /\ last.rows = <<>>
    /\ json # <<>>
    /\ previous_uptimes # << >>

\* the step is a call of refresh_nodes (a clock step leaves `event` as it was)
RefreshStep == event'.handler = "refresh_nodes" /\ now' = now

\* C27: refresh_nodes called while the dashboard is not connected or has no
\* mesh interface returns at once: no detection (the lastHeard cache is as
\* before), no save (no call recorded), table, stream and baselines
\* unchanged. Called while connected with a mesh interface, as after every
\* successful connect, it runs the detection and then save_nodes_data on
\* the nodes it read.
C27_RefreshSkippedWhileDisconnected ==
    [][/\ RefreshStep =>
             IF ~connected \/ mesh_interface = <<>>
             THEN /\ ~event'.done
                  /\ UNCHANGED <<csv, json, previous_uptimes, mesh_interface, last>>
             ELSE /\ event'.done
                  /\ last'.op = "save"
                  /\ last'.arg = now
                  /\ mesh_interface' # <<>>
                  /\ mesh_interface'[1].last_heard_cache =
                        DetectedCache(last'.nodes_data,
                                      mesh_interface[1].last_heard_cache)
       /\ (event'.handler \in {"tcp", "serial"} /\ event'.done)
             => connected' /\ mesh_interface' # <<>>]_vars

\* C27's case: refresh_nodes was called after a disconnect, with rows in the
\* table from the cycles before it, and did nothing
C27_RefreshAfterDisconnect ==
    /\ event = Handled("refresh_nodes", FALSE)
    /\ ~connected
    /\ csv # <<>>
    /\ last.op = "save"

C29_HistoryAscending ==
    last.op = "history" =>
        \A i, j \in 1..Len(last.rows) :
           i < j => last.rows[i].timestamp <= last.rows[j].timestamp

\* C29's case: the table holds a later row before an earlier one and the
\* query returned both
C29_HistoryOfUnorderedTable ==
    /\ last.op = "history"
    /\ Len(csv) = 2
    /\ csv[1].timestamp > csv[2].timestamp
    /\ Len(last.rows) = 2

\* C30: for every window, the summary aggregates exactly the rows
\* get_battery_history returns for that window: total_records is their
\* number, unique_nodes the number of distinct node_ids among them, and
\* date_range their least and greatest timestamp (None when there is none).
C30_SummaryAggregatesHistoryOfWindow ==
    last.op = "summary" =>
        \A days \in DaysArgs :
           LET df == BatteryHistory(csv, days)
               summary == last.rows[1]
           IN /\ summary.total_records = Len(df)
              /\ summary.unique_nodes =
                    Cardinality({df[i].node_id : i \in 1..Len(df)})
              /\ summary.date_range =
                    IF df = <<>> THEN <<>>
                    ELSE <<[start |-> MinTimestamp(df), end |-> MaxTimestamp(df)]>>

\* C31: while cleanup_old_data is in progress, no row that it keeps and no
\* row saved since it began leaves the table: a reader or a crash at any
\* moment finds the kept rows complete, and a save that completes during the
\* trim keeps its rows.
C31_TrimReplacesTableAtomically ==
    [][\A i \in 1..Len(cycles) :
          cycles[i].trigger = "cleanup" =>
             \A r \in RowSet(csv) :
                (\/ r \in RowSet(cycles[i].unwritten)
                 \/ r.timestamp >= cycles[i].timestamp)
                => r \in RowSet(csv')]_vars

\* the samples the record stream holds, as table rows
StreamSamples(records) == UNION {EntriesOf(records[k]) : k \in 1..Len(records)}

\* C32: cleanup_old_data leaves the record stream and the baselines as they
\* were, so get_latest_data returns what it returned before, and every row
\* the trim removed from the table is still a sample of the stream: the two
\* forms then differ.
C32_TrimChangesOnlyTheTable ==
    [][CleanupStep =>
          /\ json' = json
          /\ previous_uptimes' = previous_uptimes
          /\ LatestData(json') = LatestData(json)
          /\ \A r \in RowSet(csv) \ RowSet(csv') :
                r \in StreamSamples(json')]_vars

\* C32's case: a trim removed rows whose samples the stream still holds
C32_TrimRemovedRowsKeptInStream ==
    /\ last.op = "cleanup"
    /\ StreamSamples(json) \ RowSet(csv) # {}
    /\ previous_uptimes # << >>

\* C33: at most one 300 s timer is running; one is running after every
\* connect_tcp or connect_serial that succeeded, and none after disconnect.
C33_OneRefreshTimer ==
    /\ active_timers <= 1
    /\ (event.handler \in {"tcp", "serial"} /\ event.done) => active_timers = 1
    /\ event.handler = "disconnect" => active_timers = 0

\* C33's case: a connect succeeded after an earlier one (its save was
\* throttled by the rows of the first) and one timer is running
C33_SecondConnectOneTimer ==
    /\ event = Handled("serial", TRUE)
    /\ last.op = "save"
    /\ last.throttled
    /\ auto_refresh_timer # <<>>
    /\ active_timers = 1

\* C34: a save call that returns at the throttle leaves the table, the
\* record stream and every baseline as they were.
C34_ThrottledSaveChangesNothing ==
    [][(SaveStep /\ last'.throttled) =>
          /\ csv' = csv
          /\ json' = json
          /\ previous_uptimes' = previous_uptimes]_vars

\* C34's case: a throttled save was given an uptime of A 0.05 h away from
\* A's baseline, and the baseline is still the old one
C34_ChangeReportedWhileThrottled ==
    /\ last.op = "save"
    /\ last.throttled
    /\ HasMetrics(last.nodes_data, "A")
    /\ "A" \in DOMAIN previous_uptimes
    /\ AbsDiff(UptimeHours(last.nodes_data["A"]), previous_uptimes["A"]) >= 36

\* C35: in every state reached from an empty log by save calls, two rows of
\* the table carry the same timestamp or timestamps at least 240 seconds
\* apart.
C35_RowsOfDifferentBatchesFarApart ==
    \A i, j \in 1..Len(csv) :
       \/ csv[i].timestamp = csv[j].timestamp
       \/ AbsDiff(csv[i].timestamp, csv[j].timestamp) >= 240

\* C35's case: the table holds two rows of one batch and a row of another
C35_TwoBatchesInTable ==
    /\ \E i, j \in 1..Len(csv) :
          i # j /\ csv[i].timestamp = csv[j].timestamp
    /\ \E i, j \in 1..Len(csv) : csv[i].timestamp # csv[j].timestamp

\* no two rows of the table share node_id and timestamp
NoDuplicateRows(rows) ==
    \A i, j \in 1..Len(rows) :
       (rows[i].node_id = rows[j].node_id /\ rows[i].timestamp = rows[j].timestamp)
       => i = j

\* C36: save calls made one after the other never leave two rows with the
\* same node_id and timestamp in the table: a step that brings in such a
\* pair is the write of a call that overlapped another call.
C36_DuplicateRowsOnlyByOverlap ==
    [][(NoDuplicateRows(csv) /\ ~NoDuplicateRows(csv')) =>
          \E i \in 1..Len(cycles) :
             /\ cycles[i].pc = "csv"
             /\ cycles[i].overlapped
             /\ cycles'[i].unwritten # cycles[i].unwritten]_vars

\* C36's case: two calls passed the throttle check before either appended,
\* and the table holds two rows of A with one timestamp
C36_OverlappingSavesWroteTwice ==
    /\ ~NoDuplicateRows(csv)
    /\ Len(json) = 2
    /\ json[1].timestamp = json[2].timestamp

\* the instants at which a poll can fall at least one period before the end
PollingInstants ==
    {t \in 0..((MaxPeriods - 1) * RefreshPeriod) : t % ClockStep = 0}

\* the table holds a row of A stamped at or after the instant
RowOfASince(t) ==
    \E i \in 1..Len(csv) :
       csv[i].node_id = "A" /\ csv[i].timestamp >= StartTime + t

\* C37: with the timer polling every 300 seconds and the Refresh button
\* pressed at any moments, while every poll reports an uptime of A at least
\* 0.01 h away from A's baseline, from every instant on a row of A is
\* eventually written.
C37_MovingNodeEventuallyWritten ==
    \A t \in PollingInstants :
       (connected /\ now = StartTime + t) ~> RowOfASince(t)

\* C37's case: a manual refresh wrote A 240 s after the connect, the timer's
\* poll at 300 s was throttled, and its poll at 600 s wrote A
C37_WrittenAfterThrottledTimerPoll ==
    /\ Len(csv) = 3
    /\ csv[2].timestamp = StartTime + 240
    /\ csv[3].timestamp = StartTime + 2 * RefreshPeriod
    /\ csv[3].node_id = "A"

\* the manager's three fields are all None or all set
AllNoneOrAllSet(manager) ==
    \/ manager.interface = <<>> /\ manager.connection_type = <<>>
          /\ manager.connection_params = <<>>
    \/ manager.interface # <<>> /\ manager.connection_type # <<>>
          /\ manager.connection_params # <<>>

\* C38: a connect_tcp or connect_serial call that fails returns False and
\* leaves the manager's interface, connection_type and connection_params as
\* they were before the call; in every state the three fields are all None
\* or all set.
C38_FailedConnectLeavesManager ==
    [][/\ (event'.handler \in {"tcp", "serial"} /\ ~event'.done) =>
             connection_manager' = connection_manager
       /\ AllNoneOrAllSet(connection_manager)
       /\ AllNoneOrAllSet(connection_manager')]_vars

\* C38's case: connected over TCP, then a serial connect failed: the three
\* fields still describe the TCP connection
C38_FailedSerialKeepsTcp ==
    /\ event = Handled("serial", FALSE)
    /\ connection_manager = ConnectedBy("tcp")
    /\ connected

\* C39: however many times cleanup runs in one shutdown (from the signal
\* handler, from the finally block of run, from the atexit hook), close() is
\* called on the mesh interface at most once, and once the process has
\* exited the manager is disconnected, also when close() raised.
C39_CleanupClosesOnce ==
    /\ shutdown.closes <= 1
    /\ shutdown.pc = "done" => connection_manager = Disconnected

============================================================================
